---------------------------- MODULE Spec2Model ----------------------------
(***************************************************************************)
(* A model of fix-links.js: the anchor sanitizer (hardenRel,               *)
(* makeButtonLike, attachHandler, sanitizeOne) and its driver run(), which *)
(* makes one pass over the document and then re-applies sanitizeOne to the *)
(* nodes a MutationObserver reports as added.                              *)
(*                                                                         *)
(* Strings whose content the code inspects (href, target, rel, ...) are    *)
(* sequences of one-character strings, so that trim(), toLowerCase(),      *)
(* split(/\s+/) and join(' ') are computed character by character.  An     *)
(* absent attribute (getAttribute returning null) is the value Null.       *)
(***************************************************************************)
EXTENDS Naturals, Sequences, FiniteSets

(***************************************************************************)
(* Bounds of the model.                                                    *)
(***************************************************************************)
\* host DOM operations (appendChild / remove) in one run
MaxOps == 2
\* mutation records that may be pending when the observer callback runs
MaxRecords == 2

(***************************************************************************)
(* String values.                                                          *)
(***************************************************************************)
Null == <<"null">>

S_empty == <<>>
S_hash == <<"#">>
S_jsvoid == <<"j", "a", "v", "a", "s", "c", "r", "i", "p", "t", ":", "v", "o", "i", "d", "(", "0", ")">>
S_jsvoidsemi == <<"j", "a", "v", "a", "s", "c", "r", "i", "p", "t", ":", "v", "o", "i", "d", "(", "0", ")", ";">>
S_void == <<"v", "o", "i", "d", "(", "0", ")">>
S_current == <<"#", "c", "u", "r", "r", "e", "n", "t">>
S_archives == <<"/", "a", "r", "c", "h", "i", "v", "e", "s", "/">>
S_button == <<"b", "u", "t", "t", "o", "n">>
S_zero == <<"0">>
S_blank == <<"_", "b", "l", "a", "n", "k">>
S_noopener == <<"n", "o", "o", "p", "e", "n", "e", "r">>
S_noreferrer == <<"n", "o", "r", "e", "f", "e", "r", "r", "e", "r">>
S_javascript == <<"j", "a", "v", "a", "s", "c", "r", "i", "p", "t", ":">>

\* attribute values the host page may give an anchor
H_jsMixed == <<"J", "a", "v", "a", "S", "c", "r", "i", "p", "t", ":", "V", "o", "i", "d", "(", "0", ")">>
H_hashPadded == <<" ", "#", "\t">>
H_post == <<"/", "p", "o", "s", "t", "s", "/", "1">>
T_blankUpper == <<"_", "B", "L", "A", "N", "K">>
T_self == <<"_", "s", "e", "l", "f">>
R_mixed == <<"N", "o", "F", "o", "l", "l", "o", "w", " ", "n", "o", "r", "e", "f", "e", "r", "r", "e", "r">>
R_dups == <<" ", "u", "g", "c", "\t", "n", "o", "o", "p", "e", "n", "e", "r", " ", " ", "u", "g", "c">>
O_call == <<"f", "(", ")">>
S_link == <<"l", "i", "n", "k">>
S_minus1 == <<"-", "1">>

(***************************************************************************)
(* String operations of the JavaScript runtime, as the code uses them.     *)
(***************************************************************************)
UpperChars == <<"A", "B", "C", "D", "E", "F", "G", "H", "I", "J", "K", "L", "M",
                "N", "O", "P", "Q", "R", "S", "T", "U", "V", "W", "X", "Y", "Z">>

LowerChars == <<"a", "b", "c", "d", "e", "f", "g", "h", "i", "j", "k", "l", "m",
                "n", "o", "p", "q", "r", "s", "t", "u", "v", "w", "x", "y", "z">>

WhiteSpace == {" ", "\t", "\n"}

LowerChar(c) ==
    IF \E i \in 1..Len(UpperChars) : UpperChars[i] = c
    THEN LowerChars[CHOOSE i \in 1..Len(UpperChars) : UpperChars[i] = c]
    ELSE c

\* String.prototype.toLowerCase
toLowerCase(s) == [i \in 1..Len(s) |-> LowerChar(s[i])]

\* String.prototype.trim
trim(s) ==
    LET keep == {i \in 1..Len(s) : s[i] \notin WhiteSpace}
    IN  IF keep = {} THEN <<>>
        ELSE LET lo == CHOOSE i \in keep : \A j \in keep : i <= j
                 hi == CHOOSE i \in keep : \A j \in keep : j <= i
             IN  SubSeq(s, lo, hi)

\* (x || ''): null and the empty string both give ''
OrEmpty(v) == IF v = Null THEN <<>> ELSE v

\* a test for the attribute's presence: x !== null
Truthy_NonNull(v) == v # Null

\* !!x for an attribute value: null and '' are falsy
Truthy(v) == v # Null /\ v # <<>>

\* rel.split(/\s+/).filter(Boolean): the maximal runs of non-space
\* characters, in order
RECURSIVE SplitFrom(_, _, _)
SplitFrom(s, i, cur) ==
    IF i > Len(s)
    THEN IF cur = <<>> THEN <<>> ELSE <<cur>>
    ELSE IF s[i] \in WhiteSpace
         THEN (IF cur = <<>> THEN <<>> ELSE <<cur>>) \o SplitFrom(s, i + 1, <<>>)
         ELSE SplitFrom(s, i + 1, Append(cur, s[i]))

splitTokens(s) == SplitFrom(s, 1, <<>>)

\* new Set(list), then have.add(x): insertion order kept, repeats dropped
RECURSIVE SetAddAll(_, _)
SetAddAll(have, xs) ==
    IF xs = <<>> THEN have
    ELSE LET x == Head(xs)
         IN  SetAddAll(IF \E i \in 1..Len(have) : have[i] = x
                       THEN have ELSE Append(have, x),
                       Tail(xs))

\* the tokens joined with a comma, which split(/\s+/) does not take apart
RECURSIVE join_Comma(_)
join_Comma(toks) ==
    IF toks = <<>> THEN <<>>
    ELSE IF Len(toks) = 1 THEN toks[1]
    ELSE toks[1] \o <<",">> \o join_Comma(Tail(toks))

\* Array.from(have).join(' ')
RECURSIVE join(_)
join(toks) ==
    IF toks = <<>> THEN <<>>
    ELSE IF Len(toks) = 1 THEN toks[1]
    ELSE toks[1] \o <<" ">> \o join(Tail(toks))

(***************************************************************************)
(* The module's tables.                                                    *)
(***************************************************************************)
\* INVALID_HREFS with 'javascript:void(0)' left out
INVALID_HREFS_NoJsVoid == {S_empty, S_hash, S_jsvoidsemi, S_void}

INVALID_HREFS == {S_empty, S_hash, S_jsvoid, S_jsvoidsemi, S_void}

BUTTONY_CLASSES ==
    {"darkmode_switchbutton", "asideSwitch", "commentBarrage",
     "console_switchbutton", "banner-button", "totopbtn",
     "randomPost_button", "randomPost", "site-page"}

(***************************************************************************)
(* An anchor element: its attributes, its class list and the listeners     *)
(* attachHandler has bound to it (each call binds one fresh click closure  *)
(* and one fresh keydown closure, so they are counted).                    *)
(***************************************************************************)
\* hardenRel pushing the needed tokens onto the list, with no Set
hardenRel_NoSet(a) ==
    LET t == toLowerCase(OrEmpty(a.target))
    IN  IF t = S_blank
        THEN LET rel    == toLowerCase(OrEmpty(a.rel))
                 needed == <<S_noopener, S_noreferrer>>
             IN  [a EXCEPT !.rel = join(splitTokens(rel) \o needed)]
        ELSE a

hardenRel(a) ==
    LET t == toLowerCase(OrEmpty(a.target))
    IN  IF t = S_blank
        THEN LET rel    == toLowerCase(OrEmpty(a.rel))
                 needed == <<S_noopener, S_noreferrer>>
                 have   == SetAddAll(SetAddAll(<<>>, splitTokens(rel)), needed)
             IN  [a EXCEPT !.rel = join(have)]
        ELSE a

makeButtonLike(a) ==
    [a EXCEPT !.href = S_hash, !.role = S_button, !.tabindex = S_zero]

attachHandler(a) ==
    [a EXCEPT !.nclick = @ + 1, !.nkeydown = @ + 1]

isButtony(a) == \E c \in BUTTONY_CLASSES : c \in a.cls

\* sanitizeOne giving '#current' to every rewrite candidate with no button
\* class, its href invalid or not
sanitizeOne_CurrentForCandidates(a) ==
    LET rawHref       == toLowerCase(trim(OrEmpty(a.href)))
        hasOnclick    == Truthy(a.onclick)
        a1            == hardenRel(a)
        isInvalidHref == rawHref = <<>> \/ rawHref \in INVALID_HREFS
    IN  IF isInvalidHref \/ hasOnclick
        THEN IF isButtony(a1)
             THEN attachHandler(makeButtonLike(a1))
             ELSE [a1 EXCEPT !.href = S_current]
        ELSE a1

\* sanitizeOne taking every button-class anchor for a rewrite candidate
sanitizeOne_ButtonyAlways(a) ==
    LET rawHref       == toLowerCase(trim(OrEmpty(a.href)))
        hasOnclick    == Truthy(a.onclick)
        a1            == hardenRel(a)
        isInvalidHref == rawHref = <<>> \/ rawHref \in INVALID_HREFS
    IN  IF isButtony(a1)
        THEN attachHandler(makeButtonLike(a1))
        ELSE IF isInvalidHref THEN [a1 EXCEPT !.href = S_current] ELSE a1

sanitizeOne(a) ==
    LET rawHref       == toLowerCase(trim(OrEmpty(a.href)))
        hasOnclick    == Truthy(a.onclick)
        a1            == hardenRel(a)
        isInvalidHref == rawHref = <<>> \/ rawHref \in INVALID_HREFS
    IN  IF isInvalidHref \/ hasOnclick
        THEN IF isButtony(a1)
             THEN attachHandler(makeButtonLike(a1))
             ELSE IF isInvalidHref
                  THEN [a1 EXCEPT !.href = S_current]
                  ELSE a1
        ELSE a1


(***************************************************************************)
(* The host environment a click finds: each optional global the handler    *)
(* probes is absent (undefined or otherwise falsy), a function that        *)
(* returns ("ok"), a function that throws ("throws"), or a truthy value    *)
(* that is no function ("notcallable": calling it raises a TypeError).     *)
(* window.scrollTo may also accept (x, y) but throw on an options object   *)
(* ("nosmooth").  The location.href setter works or throws.                *)
(***************************************************************************)
DarkFns == <<"navFn.switchDarkMode", "navFn.switcharMode",
             "heo.switchDarkMode", "window.switchDarkMode">>

ConsoleFns == <<"heo.showConsole", "heo.hideConsole">>

BarrageFns == <<"window.switchCommentBarrage", "heo.toggleCommentBarrage">>

RandomFns == <<"window.toRandomPost">>

ProbeGroups == {DarkFns, ConsoleFns, BarrageFns, RandomFns}

Range(seq) == {seq[i] : i \in 1..Len(seq)}

OptionalFns == UNION {Range(g) : g \in ProbeGroups}

Globals == OptionalFns \cup {"window.scrollTo", "location.href"}

FnStatus == {"absent", "ok", "throws", "notcallable"}

\* every optional function in state b, the scroll API and the location
\* setter working
Baseline(b) ==
    [f \in Globals |-> IF f \in OptionalFns THEN b ELSE "ok"]

\* the first k functions of probe group g absent, the next one in state s,
\* the later ones present
GroupEnv(b, g, k, s) ==
    [f \in Globals |->
        IF f \in Range(g)
        THEN LET i == CHOOSE j \in 1..Len(g) : g[j] = f
             IN  IF i <= k THEN "absent" ELSE IF i = k + 1 THEN s ELSE "ok"
        ELSE Baseline(b)[f]]

Envs ==
    {Baseline(b) : b \in {"absent", "ok"}}
    \cup {GroupEnv("ok", g, k, s) : g \in ProbeGroups, k \in 0..3, s \in FnStatus}
    \cup {[Baseline(b) EXCEPT !["window.scrollTo"] = s] :
             b \in {"absent", "ok"},
             s \in {"nosmooth", "throws", "absent", "notcallable"}}
    \cup {[Baseline(b) EXCEPT !["location.href"] = "throws"] :
             b \in {"absent", "ok"}}

(***************************************************************************)
(* One run of the click listener attachHandler binds.  A run yields the    *)
(* external effects it had, in order (functions actually invoked, scroll   *)
(* calls, the location assignment), whether it called preventDefault,      *)
(* whether an exception left the listener, whether the viewport was        *)
(* scrolled to the top and whether location.href was assigned.             *)
(***************************************************************************)
NoEffect == [calls |-> <<>>, exc |-> FALSE, top |-> FALSE, assigned |-> FALSE]

\* f() for a truthy f
Call(env, f) ==
    CASE env[f] = "ok"     -> [NoEffect EXCEPT !.calls = <<f>>]
      [] env[f] = "throws" -> [NoEffect EXCEPT !.calls = <<f>>, !.exc = TRUE]
      [] OTHER             -> [NoEffect EXCEPT !.exc = TRUE]

\* the probes without the returns: every function that is present is called
RECURSIVE Probe_CallAll(_, _)
Probe_CallAll(env, fns) ==
    IF fns = <<>> THEN NoEffect
    ELSE LET rest == Probe_CallAll(env, Tail(fns))
         IN  IF env[Head(fns)] # "absent"
             THEN LET c == Call(env, Head(fns))
                  IN  [rest EXCEPT !.calls = c.calls \o @, !.exc = c.exc \/ @]
             ELSE rest

\* if (f1) return void f1(); if (f2) return void f2(); ...
RECURSIVE Probe(_, _)
Probe(env, fns) ==
    IF fns = <<>> THEN NoEffect
    ELSE IF env[Head(fns)] # "absent" THEN Call(env, Head(fns))
    ELSE Probe(env, Tail(fns))

\* try { ... } catch (_) {}
Swallow(r) == [r EXCEPT !.exc = FALSE]

darkmodeBranch(env) == Swallow(Probe(env, DarkFns))

asideSwitchBranch(env) == Swallow(Probe(env, <<"heo.showConsole">>))

consoleSwitchBranch(env) == Swallow(Probe(env, ConsoleFns))

commentBarrageBranch(env) == Swallow(Probe(env, BarrageFns))

\* window.scrollTo({ top: 0, behavior: 'smooth' })
ScrollSmooth(env) ==
    CASE env["window.scrollTo"] = "ok" ->
            [NoEffect EXCEPT !.calls = <<"scrollTo(smooth)">>, !.top = TRUE]
      [] env["window.scrollTo"] \in {"nosmooth", "throws"} ->
            [NoEffect EXCEPT !.calls = <<"scrollTo(smooth)">>, !.exc = TRUE]
      [] OTHER -> [NoEffect EXCEPT !.exc = TRUE]

\* window.scrollTo(0, 0)
ScrollInstant(env) ==
    CASE env["window.scrollTo"] \in {"ok", "nosmooth"} ->
            [NoEffect EXCEPT !.calls = <<"scrollTo(0,0)">>, !.top = TRUE]
      [] env["window.scrollTo"] = "throws" ->
            [NoEffect EXCEPT !.calls = <<"scrollTo(0,0)">>, !.exc = TRUE]
      [] OTHER -> [NoEffect EXCEPT !.exc = TRUE]

\* the totopbtn branch with an empty catch block
totopBranch_NoFallback(env) == Swallow(ScrollSmooth(env))

\* try { smooth } catch (_) { instant }: the catch block is not guarded
totopBranch(env) ==
    LET s == ScrollSmooth(env)
    IN  IF s.exc
        THEN LET i == ScrollInstant(env)
             IN  [i EXCEPT !.calls = s.calls \o i.calls]
        ELSE s

\* location.href = '/archives/'
AssignArchives(env) ==
    IF env["location.href"] = "ok"
    THEN [NoEffect EXCEPT !.calls = <<"location.href=/archives/">>,
                          !.assigned = TRUE]
    ELSE [NoEffect EXCEPT !.calls = <<"location.href=/archives/">>,
                          !.exc = TRUE]

\* the randomPost branch without the return before the assignment
randomPostBranch_NoReturn(env) ==
    IF env["window.toRandomPost"] # "absent"
    THEN LET c == Call(env, "window.toRandomPost")
         IN  IF c.exc THEN Swallow(c)
             ELSE LET n == Swallow(AssignArchives(env))
                  IN  [n EXCEPT !.calls = c.calls \o n.calls]
    ELSE Swallow(AssignArchives(env))

\* the randomPost branch with the fallback assignment after the try block
randomPostBranch_AssignOutsideTry(env) ==
    IF env["window.toRandomPost"] # "absent"
    THEN Swallow(Call(env, "window.toRandomPost"))
    ELSE AssignArchives(env)

\* the call and the fallback assignment share one try block
randomPostBranch(env) ==
    IF env["window.toRandomPost"] # "absent"
    THEN Swallow(Call(env, "window.toRandomPost"))
    ELSE Swallow(AssignArchives(env))

\* the href test taken for true whatever the href
hrefIsHash_Always(a) == TRUE

\* (a.getAttribute('href') || '') === '#'
hrefIsHash(a) == OrEmpty(a.href) = S_hash

\* the class tests with the randomPost test moved to the front
dispatch_RandomPostFirst(a, env) ==
    IF "randomPost" \in a.cls \/ "randomPost_button" \in a.cls
         THEN randomPostBranch(env)
    ELSE IF "darkmode_switchbutton" \in a.cls THEN darkmodeBranch(env)
    ELSE IF "asideSwitch" \in a.cls THEN asideSwitchBranch(env)
    ELSE IF "console_switchbutton" \in a.cls THEN consoleSwitchBranch(env)
    ELSE IF "banner-button" \in a.cls THEN NoEffect
    ELSE IF "commentBarrage" \in a.cls THEN commentBarrageBranch(env)
    ELSE IF "totopbtn" \in a.cls THEN totopBranch(env)
    ELSE NoEffect

\* the branch taken: the first class test that succeeds, in source order
dispatch(a, env) ==
    IF "darkmode_switchbutton" \in a.cls THEN darkmodeBranch(env)
    ELSE IF "asideSwitch" \in a.cls THEN asideSwitchBranch(env)
    ELSE IF "console_switchbutton" \in a.cls THEN consoleSwitchBranch(env)
    ELSE IF "banner-button" \in a.cls THEN NoEffect
    ELSE IF "commentBarrage" \in a.cls THEN commentBarrageBranch(env)
    ELSE IF "totopbtn" \in a.cls THEN totopBranch(env)
    ELSE IF "randomPost" \in a.cls \/ "randomPost_button" \in a.cls
         THEN randomPostBranch(env)
    ELSE IF "site-page" \in a.cls THEN NoEffect
    ELSE NoEffect

\* the click listener without its preventDefault line
clickListener_NoPreventDefault(a, env) ==
    [prevented |-> FALSE, run |-> dispatch(a, env)]

clickListener(a, env) ==
    [prevented |-> hrefIsHash(a), run |-> dispatch(a, env)]

(***************************************************************************)
(* The document.  Two anchors, one container element and one text node     *)
(* may exist; "root" is document.documentElement.  kids gives each         *)
(* container's children in order; a node in no child list is detached.     *)
(***************************************************************************)
AnchorIds == {"a1", "a2"}

Containers == {"root", "div"}

NodeIds == AnchorIds \cup {"div", "txt"}

VARIABLES
    nodes,      \* the nodes the page has created
    els,        \* AnchorIds -> the anchor element's state
    kids,       \* Containers -> sequence of child nodes
    wstate,     \* "uninitialized" until run() has been called, then "watching"
    records,    \* mutation records queued for the observer (addedNodes lists)
    ops,        \* host DOM operations so far
    location,   \* location.href
    scrollY,    \* the viewport's vertical offset
    env,        \* the optional globals of the host page
    last,       \* the outcome of the latest user event, if it was the last step
    initOrder,  \* the anchors run()'s first pass processed, in order
    proc,       \* AnchorIds -> how often each path has applied sanitizeOne
    orig,       \* AnchorIds -> the anchor as the page's markup made it
    touched     \* the anchors whose attributes a page script has set since

vars == <<nodes, els, kids, wstate, records, ops, location, scrollY, env,
          last, initOrder, proc, orig, touched>>

PageURL == <<"/">>

\* node.nodeType: 1 for an element, 3 for a text node
nodeType(n) == IF n = "txt" THEN 3 ELSE 1

tagName(n) == IF n \in AnchorIds THEN "A" ELSE IF n = "div" THEN "DIV" ELSE "#text"

Parent(n) ==
    IF \E i \in 1..Len(kids["root"]) : kids["root"][i] = n THEN "root"
    ELSE IF \E i \in 1..Len(kids["div"]) : kids["div"][i] = n THEN "div"
    ELSE "none"

Connected(n) ==
    \/ n = "root"
    \/ Parent(n) = "root"
    \/ Parent(n) = "div" /\ Parent("div") = "root"

\* node.querySelectorAll('a'): the anchors below node, in tree order
RECURSIVE AnchorsIn(_, _)
AnchorsIn(k, seq) ==
    IF seq = <<>> THEN <<>>
    ELSE LET n == Head(seq)
         IN  (IF n \in AnchorIds THEN <<n>>
              ELSE IF n \in Containers THEN AnchorsIn(k, k[n])
              ELSE <<>>) \o AnchorsIn(k, Tail(seq))

querySelectorAllA(n) == IF n \in Containers THEN AnchorsIn(kids, kids[n]) ELSE <<>>

\* list.forEach(sanitizeOne)
RECURSIVE forEachSanitize(_, _)
forEachSanitize(e, seq) ==
    IF seq = <<>> THEN e
    ELSE forEachSanitize([e EXCEPT ![Head(seq)] = sanitizeOne(@)], Tail(seq))

Count(seq, x) == Cardinality({i \in 1..Len(seq) : seq[i] = x})

\* the anchors the observer callback passes to sanitizeOne for one added node
addedNodeAnchors(n) ==
    IF nodeType(n) = 1
    THEN (IF tagName(n) = "A" THEN <<n>> ELSE <<>>) \o querySelectorAllA(n)
    ELSE <<>>

\* muts.forEach(m => m.addedNodes.forEach(...)): every anchor processed, in order
RECURSIVE addedAnchors(_)
addedAnchors(ns) ==
    IF ns = <<>> THEN <<>>
    ELSE addedNodeAnchors(Head(ns)) \o addedAnchors(Tail(ns))

RECURSIVE Flatten(_)
Flatten(recs) ==
    IF recs = <<>> THEN <<>> ELSE Head(recs) \o Flatten(Tail(recs))

\* the options with attribute changes observed as well
ObserveOptions_Attributes == {"childList", "subtree", "attributes"}

\* mo.observe(document.documentElement, { childList: true, subtree: true })
ObserveOptions == {"childList", "subtree"}

\* the records attribute changes produce: none unless attributes are observed;
\* such a record has an empty addedNodes list
RECURSIVE attributeRecords(_, _, _)
attributeRecords(before, after, seq) ==
    IF seq = <<>> THEN <<>>
    ELSE (IF /\ "attributes" \in ObserveOptions
             /\ wstate = "watching"
             /\ Connected(Head(seq))
             /\ before[Head(seq)] # after[Head(seq)]
          THEN << <<>> >> ELSE <<>>)
         \o attributeRecords(before, after, Tail(seq))

(***************************************************************************)
(* Dispatch of one click event on an anchor: every bound click listener    *)
(* runs (an exception leaving one listener is reported by the host and     *)
(* does not stop the others), then the host performs the anchor's default  *)
(* action unless a listener called preventDefault.                         *)
(***************************************************************************)
RECURSIVE Repeat(_, _)
Repeat(seq, n) == IF n = 0 THEN <<>> ELSE seq \o Repeat(seq, n - 1)

StartsWith(s, pre) == Len(s) >= Len(pre) /\ SubSeq(s, 1, Len(pre)) = pre

\* where following the link leads: the new location.href
DefaultTarget(a, loc) ==
    IF a.href = Null THEN loc
    ELSE LET h == trim(a.href)
         IN  IF h = <<>> THEN PageURL
             ELSE IF h[1] = "#" THEN PageURL \o h
             ELSE IF StartsWith(toLowerCase(h), S_javascript) THEN loc
             ELSE h

clickEvent(a, e) ==
    LET l == clickListener(a, e)
        n == a.nclick
    IN  [runs      |-> n,
         calls     |-> Repeat(l.run.calls, n),
         errors    |-> IF l.run.exc THEN n ELSE 0,
         prevented |-> n > 0 /\ l.prevented,
         assigned  |-> n > 0 /\ l.run.assigned,
         top       |-> n > 0 /\ l.run.top]

\* location.href once the event and its default action are over
LocationAfter(a, ev, loc) ==
    IF ~ev.prevented /\ DefaultTarget(a, loc) # loc THEN DefaultTarget(a, loc)
    ELSE IF ev.assigned THEN S_archives
    ELSE loc

ScrollAfter(a, ev, loc, y) ==
    IF ev.top THEN 0
    ELSE IF ~ev.prevented /\ DefaultTarget(a, loc) = PageURL \o S_hash THEN 0
    ELSE y

\* the page is still the document the script runs in
Loaded == location = PageURL \/ StartsWith(location, PageURL \o S_hash)

NoEvent ==
    [kind |-> "none", node |-> "none", key |-> "",
     runs |-> 0, calls |-> <<>>, errors |-> 0, prevented |-> FALSE,
     assigned |-> FALSE, clicks |-> 0, locBefore |-> PageURL, yBefore |-> 0]

(***************************************************************************)
(* The pages the model starts from, in three families.  One anchor whose    *)
(* attributes range widely, on a host with all the optional globals; one   *)
(* button-like anchor of any class list, on every host of Envs; two        *)
(* anchors, a container and a text node, which the host moves about, the   *)
(* anchors drawn from a few representative ones.                           *)
(***************************************************************************)
El(h, o, t, r, ro, ti, c) ==
    [href |-> h, onclick |-> o, target |-> t, rel |-> r, role |-> ro,
     tabindex |-> ti, cls |-> c, nclick |-> 0, nkeydown |-> 0]

Hrefs == {Null, S_empty, S_hash, H_hashPadded, H_jsMixed, S_jsvoidsemi,
          S_void, H_post, S_current}

Onclicks == {Null, S_empty, O_call}

Targets == {Null, S_blank, T_blankUpper, T_self}

Rels == {Null, S_empty, S_noopener, R_mixed, R_dups}

ClassSets ==
    {{}, {"nav-link"}}
    \cup {{c} : c \in BUTTONY_CLASSES}
    \cup {{"nav-link", "totopbtn"},
          {"darkmode_switchbutton", "asideSwitch"},
          {"asideSwitch", "console_switchbutton"},
          {"console_switchbutton", "banner-button"},
          {"banner-button", "commentBarrage"},
          {"commentBarrage", "totopbtn"},
          {"totopbtn", "randomPost"},
          {"totopbtn", "randomPost_button"},
          {"randomPost", "randomPost_button"},
          {"randomPost_button", "site-page"},
          {"darkmode_switchbutton", "randomPost", "site-page"}}

\* every href and onclick on an anchor of a few class lists, and every class
\* list on an anchor of a few hrefs and onclicks; no target, no rel
CategoryElements ==
    {El(h, o, Null, Null, Null, Null, c) :
        h \in Hrefs, o \in Onclicks,
        c \in {{}, {"nav-link", "totopbtn"}, {"randomPost", "randomPost_button"}}}
    \cup {El(h, o, Null, Null, Null, Null, c) :
        h \in {Null, S_hash, H_post}, o \in {Null, O_call}, c \in ClassSets}
    \cup {El(h, Null, Null, Null, S_link, S_minus1, c) :
        h \in {S_hash, H_post}, c \in ClassSets}

\* every target and rel combination, on an anchor of each category
RelElements ==
    {El(k[1], k[2], t, r, Null, Null, k[3]) :
        k \in {<<H_post, Null, {}>>, <<H_post, Null, {"totopbtn"}>>,
               <<S_hash, Null, {}>>, <<S_hash, Null, {"totopbtn"}>>,
               <<H_post, O_call, {}>>},
        t \in Targets, r \in Rels}

\* an anchor of every class list, with an href or an onclick that makes it a
\* rewrite candidate
DispatchElements ==
    {El(S_jsvoidsemi, Null, Null, Null, Null, Null, c) : c \in ClassSets}
    \cup {El(H_post, O_call, Null, Null, Null, Null, c) :
             c \in {{"totopbtn"}, {"randomPost"}, {"darkmode_switchbutton", "asideSwitch"}}}

DomPairs ==
    {<<El(S_jsvoidsemi, Null, Null, Null, Null, Null, {"darkmode_switchbutton"}),
       El(S_hash, Null, S_blank, Null, Null, Null, {})>>,
     <<El(S_empty, Null, Null, Null, Null, Null, {"randomPost"}),
       El(H_post, Null, T_blankUpper, R_mixed, Null, Null, {"nav-link"})>>,
     <<El(H_post, O_call, Null, Null, Null, Null, {"totopbtn"}),
       El(Null, O_call, Null, Null, Null, Null, {})>>}

BlankElement == El(Null, Null, Null, Null, Null, Null, {})

Layouts ==
    {[root |-> <<>>, div |-> <<>>],
     [root |-> <<"a1">>, div |-> <<>>],
     [root |-> <<"div", "a1">>, div |-> <<"a2">>]}

InitCommon ==
    /\ wstate = "uninitialized"
    /\ records = <<>>
    /\ ops = 0
    /\ location = PageURL
    /\ scrollY = 400
    /\ last = NoEvent
    /\ initOrder = <<>>
    /\ proc = [a \in AnchorIds |-> [initial |-> 0, watcher |-> 0]]
    /\ orig = els
    /\ touched = {}

InitAttributes ==
    /\ nodes = {"a1"}
    /\ kids = [root |-> <<"a1">>, div |-> <<>>]
    /\ \E e \in CategoryElements \cup RelElements :
          els = [a \in AnchorIds |-> IF a = "a1" THEN e ELSE BlankElement]
    /\ env = Baseline("ok")
    /\ InitCommon

InitDispatch ==
    /\ nodes = {"a1"}
    /\ kids = [root |-> <<"a1">>, div |-> <<>>]
    /\ \E e \in DispatchElements :
          els = [a \in AnchorIds |-> IF a = "a1" THEN e ELSE BlankElement]
    /\ env \in Envs
    /\ InitCommon

InitDom ==
    /\ nodes = NodeIds
    /\ kids \in Layouts
    /\ \E p \in DomPairs : els = [a \in AnchorIds |-> IF a = "a1" THEN p[1] ELSE p[2]]
    /\ env = Baseline("ok")
    /\ InitCommon

Init == InitAttributes \/ InitDispatch \/ InitDom

(***************************************************************************)
(* run(): the pass over the document, then the observer is installed.      *)
(* The script calls it at once or on DOMContentLoaded; either way it runs  *)
(* once, synchronously.                                                    *)
(***************************************************************************)
\* the latest event's outcome has been taken note of
Settled == last.kind = "none"

Settle ==
    /\ ~Settled
    /\ last' = NoEvent
    /\ UNCHANGED <<env, nodes, els, kids, wstate, records, ops, location, scrollY,
                   initOrder, proc, orig, touched>>

Bump(p, seq, path) ==
    [a \in AnchorIds |-> [p[a] EXCEPT ![path] = @ + Count(seq, a)]]

Run ==
    /\ wstate = "uninitialized"
    /\ Loaded
    /\ Settled
    /\ LET all == querySelectorAllA("root")
       IN  /\ els' = forEachSanitize(els, all)
           /\ initOrder' = all
           /\ proc' = Bump(proc, all, "initial")
    /\ wstate' = "watching"
    /\ last' = NoEvent
    /\ UNCHANGED <<env, nodes, kids, records, ops, location, scrollY, orig, touched>>

\* the MutationObserver callback, called with the queued records
ObserverCallback ==
    /\ wstate = "watching"
    /\ records # <<>>
    /\ Loaded
    /\ Settled
    /\ LET all == addedAnchors(Flatten(records))
       IN  /\ els' = forEachSanitize(els, all)
           /\ proc' = Bump(proc, all, "watcher")
           /\ records' = attributeRecords(els, els', all)
    /\ last' = NoEvent
    /\ UNCHANGED <<env, nodes, kids, wstate, ops, location, scrollY, initOrder, orig, touched>>

(***************************************************************************)
(* The host page: scripts that insert and remove nodes and set            *)
(* attributes.  mo.observe(documentElement, {childList, subtree}) queues   *)
(* a record for a child-list change below the root only, once observing.   *)
(***************************************************************************)
Without(seq, n) == SelectSeq(seq, LAMBDA x : x # n)

\* the observer installed when the script starts, before run()
Observed_FromStart(p) ==
    /\ "childList" \in ObserveOptions
    /\ p = "root" \/ ("subtree" \in ObserveOptions /\ Connected(p))

Observed(p) ==
    /\ wstate = "watching"
    /\ "childList" \in ObserveOptions
    /\ p = "root" \/ ("subtree" \in ObserveOptions /\ Connected(p))

Queue(p, added) == IF Observed(p) THEN Append(records, added) ELSE records

HostAppend(n, p) ==
    /\ Loaded
    /\ Settled
    /\ ops < MaxOps
    /\ n \in nodes /\ p \in Containers /\ n # p
    /\ p = "div" => "div" \in nodes /\ n # "div"
    /\ Parent(n) = "none"
    /\ Observed(p) => Len(records) < MaxRecords
    /\ kids' = [kids EXCEPT ![p] = Append(@, n)]
    /\ records' = Queue(p, <<n>>)
    /\ ops' = ops + 1
    /\ last' = NoEvent
    /\ UNCHANGED <<env, nodes, els, wstate, location, scrollY, initOrder, proc, orig, touched>>

\* a DocumentFragment with two nodes: one record, two added nodes
HostAppendFragment(n, m, p) ==
    /\ Loaded
    /\ Settled
    /\ ops < MaxOps
    /\ {n, m} \subseteq nodes /\ n # m /\ p \in Containers /\ p \notin {n, m}
    /\ p = "div" => "div" \in nodes /\ "div" \notin {n, m}
    /\ Parent(n) = "none" /\ Parent(m) = "none"
    /\ Observed(p) => Len(records) < MaxRecords
    /\ kids' = [kids EXCEPT ![p] = @ \o <<n, m>>]
    /\ records' = Queue(p, <<n, m>>)
    /\ ops' = ops + 1
    /\ last' = NoEvent
    /\ UNCHANGED <<env, nodes, els, wstate, location, scrollY, initOrder, proc, orig, touched>>

\* node.remove(): the record has removedNodes only
HostRemove(n) ==
    /\ Loaded
    /\ Settled
    /\ ops < MaxOps
    /\ n \in nodes
    /\ Parent(n) # "none"
    /\ Observed(Parent(n)) => Len(records) < MaxRecords
    /\ kids' = [c \in Containers |-> Without(kids[c], n)]
    /\ records' = Queue(Parent(n), <<>>)
    /\ ops' = ops + 1
    /\ last' = NoEvent
    /\ UNCHANGED <<env, nodes, els, wstate, location, scrollY, initOrder, proc, orig, touched>>

\* a.setAttribute('href', v) by the page: attribute changes are not observed
HostSetHref(a, v) ==
    /\ Loaded
    /\ Settled
    /\ ops < MaxOps
    /\ a \in nodes \cap AnchorIds
    /\ els[a].href # v
    /\ els' = [els EXCEPT ![a].href = v]
    /\ records' = records \o attributeRecords(els, els', <<a>>)
    /\ touched' = touched \cup {a}
    /\ ops' = ops + 1
    /\ last' = NoEvent
    /\ UNCHANGED <<env, nodes, kids, wstate, location, scrollY,
                   initOrder, proc, orig>>

\* a.className = '' by the page, on an anchor the script has bound
HostSetClassName(a) ==
    /\ Loaded
    /\ Settled
    /\ ops < MaxOps
    /\ a \in nodes \cap AnchorIds
    /\ els[a].nclick > 0
    /\ els[a].cls # {}
    /\ els' = [els EXCEPT ![a].cls = {}]
    /\ records' = records \o attributeRecords(els, els', <<a>>)
    /\ touched' = touched \cup {a}
    /\ ops' = ops + 1
    /\ last' = NoEvent
    /\ UNCHANGED <<env, nodes, kids, wstate, location, scrollY,
                   initOrder, proc, orig>>

\* the user scrolls down again
HostScroll ==
    /\ Loaded
    /\ Settled
    /\ records = <<>>
    /\ scrollY = 0
    /\ scrollY' = 400
    /\ last' = NoEvent
    /\ UNCHANGED <<env, nodes, els, kids, wstate, records, ops, location, initOrder, proc, orig, touched>>

(***************************************************************************)
(* User events on an anchor in the document.  They are tasks of their own, *)
(* so no mutation record is pending when one is dispatched.                *)
(***************************************************************************)
Click(a) ==
    /\ Loaded
    /\ Settled
    /\ records = <<>>
    /\ a \in nodes \cap AnchorIds
    /\ Connected(a)
    /\ LET ev == clickEvent(els[a], env)
       IN  /\ last' = [kind |-> "click", node |-> a, key |-> "",
                       runs |-> ev.runs, calls |-> ev.calls,
                       errors |-> ev.errors, prevented |-> ev.prevented,
                       assigned |-> ev.assigned, clicks |-> 1,
                       locBefore |-> location, yBefore |-> scrollY]
           /\ location' = LocationAfter(els[a], ev, location)
           /\ scrollY' = ScrollAfter(els[a], ev, location, scrollY)
    /\ UNCHANGED <<env, nodes, els, kids, wstate, records, ops, initOrder, proc, orig, touched>>

\* e.key === 'Enter' && (a.getAttribute('href') || '') === '#'
keydownClicks(a, key) == key = "Enter" /\ hrefIsHash(a)

\* every keydown listener that passes the test calls a.click()
Keydown(a, key) ==
    /\ Loaded
    /\ Settled
    /\ records = <<>>
    /\ a \in nodes \cap AnchorIds
    /\ Connected(a)
    /\ LET ev == clickEvent(els[a], env)
           n  == IF keydownClicks(els[a], key) THEN els[a].nkeydown ELSE 0
       IN  /\ last' = [kind |-> "keydown", node |-> a, key |-> key,
                       runs |-> n * ev.runs, calls |-> Repeat(ev.calls, n),
                       errors |-> n * ev.errors,
                       prevented |-> n > 0 /\ ev.prevented,
                       assigned |-> n > 0 /\ ev.assigned, clicks |-> n,
                       locBefore |-> location, yBefore |-> scrollY]
           /\ location' = IF n > 0 THEN LocationAfter(els[a], ev, location)
                          ELSE location
           /\ scrollY' = IF n > 0 THEN ScrollAfter(els[a], ev, location, scrollY)
                         ELSE scrollY
    /\ UNCHANGED <<env, nodes, els, kids, wstate, records, ops, initOrder, proc, orig, touched>>

Keys == {"Enter", " "}

Next ==
    \/ Run
    \/ ObserverCallback
    \/ \E n \in NodeIds, p \in Containers : HostAppend(n, p)
    \/ \E n \in NodeIds, m \in NodeIds, p \in Containers : HostAppendFragment(n, m, p)
    \/ \E n \in NodeIds : HostRemove(n)
    \/ \E a \in AnchorIds : HostSetHref(a, H_post)
    \/ \E a \in AnchorIds : HostSetClassName(a)
    \/ HostScroll
    \/ \E a \in AnchorIds : Click(a)
    \/ \E a \in AnchorIds, key \in Keys : Keydown(a, key)
    \/ Settle

Spec == Init /\ [][Next]_vars

(***************************************************************************)
(* Vocabulary of the properties, stated from the specification and not     *)
(* from the definitions above.                                             *)
(***************************************************************************)
\* the glossary's button classes
KnownButtonClasses ==
    {"darkmode_switchbutton", "asideSwitch", "commentBarrage",
     "console_switchbutton", "banner-button", "totopbtn", "randomPost_button",
     "randomPost", "site-page"}

HasButtonClass(e) == e.cls \cap KnownButtonClasses # {}

\* InvalidHrefSet of the data model
InvalidHrefSet == {<<>>, <<"#">>, S_jsvoid, S_jsvoidsemi, S_void}

\* the href, trimmed and lowercased, is empty, absent or in the invalid set
HrefIsInvalid(e) ==
    LET h == IF e.href = Null THEN <<>> ELSE toLowerCase(trim(e.href))
    IN  h \in InvalidHrefSet

TargetIsBlank(e) == e.target # Null /\ toLowerCase(e.target) = S_blank

RequiredRelSet == {S_noopener, S_noreferrer}

\* the rel attribute's tokens, as written
RelTokens(e) == IF e.rel = Null THEN {} ELSE Range(splitTokens(e.rel))

RelHasNoRepeat(e) ==
    e.rel # Null /\ Len(splitTokens(e.rel)) = Cardinality(RelTokens(e))

\* the behaviour tags in their priority order, and the classes of each
TagOrder ==
    <<"darkmode", "asideSwitch", "consoleSwitch", "bannerButton",
      "commentBarrage", "totop", "randomPost", "sitePage">>

TagClasses(tag) ==
    CASE tag = "darkmode"       -> {"darkmode_switchbutton"}
      [] tag = "asideSwitch"    -> {"asideSwitch"}
      [] tag = "consoleSwitch"  -> {"console_switchbutton"}
      [] tag = "bannerButton"   -> {"banner-button"}
      [] tag = "commentBarrage" -> {"commentBarrage"}
      [] tag = "totop"          -> {"totopbtn"}
      [] tag = "randomPost"     -> {"randomPost", "randomPost_button"}
      [] tag = "sitePage"       -> {"site-page"}

HasTag(e, tag) == e.cls \cap TagClasses(tag) # {}

\* the first tag of TagOrder the anchor matches, "none" if it matches none
FirstTag(e) ==
    IF \E i \in 1..Len(TagOrder) : HasTag(e, TagOrder[i])
    THEN TagOrder[CHOOSE i \in 1..Len(TagOrder) :
                     /\ HasTag(e, TagOrder[i])
                     /\ \A j \in 1..(i - 1) : ~HasTag(e, TagOrder[j])]
    ELSE "none"

\* this step passes anchor a to sanitizeOne
SanitizedIn(a) == proc'[a] # proc[a]

Processed(a) == proc[a].initial + proc[a].watcher > 0

\* this step is a click on anchor a
ClickOn(a) == Settled /\ last'.kind = "click" /\ last'.node = a

\* the anchor the latest event went to
Target == els[last.node]

OnclickNonEmpty(e) == e.onclick # Null /\ e.onclick # <<>>

IsButtonRewritten(e) ==
    e.href = S_hash /\ e.role = S_button /\ e.tabindex = S_zero

(***************************************************************************)
(* C1, as stated: every anchor with a known button class has href "#",     *)
(* role "button" and tabindex "0" once sanitizeOne has processed it, and   *)
(* a click on it leaves location.href as it was.                           *)
(***************************************************************************)
C1_EveryButtonClassAnchor ==
    [][\A a \in AnchorIds :
          HasButtonClass(els[a]) =>
             /\ SanitizedIn(a) => IsButtonRewritten(els'[a])
             /\ (ClickOn(a) /\ Processed(a) /\ a \notin touched)
                    => location' = location]_vars

(***************************************************************************)
(* C1, amended: an anchor with a known button class whose href is invalid  *)
(* or whose onclick attribute is non-empty has href "#", role "button"     *)
(* and tabindex "0" once sanitizeOne has processed it; a click on it while *)
(* its href is "#" leaves location.href as it was, except that it becomes  *)
(* "/archives/" when the first matching tag is randomPost and              *)
(* window.toRandomPost is absent.                                          *)
(***************************************************************************)
C1_ButtonLikeRewrite ==
    [][\A a \in AnchorIds :
          HasButtonClass(els[a]) =>
             /\ (SanitizedIn(a) /\ (HrefIsInvalid(els[a]) \/ OnclickNonEmpty(els[a])))
                    => IsButtonRewritten(els'[a])
             /\ (ClickOn(a) /\ Processed(a) /\ els[a].href = S_hash)
                    => \/ location' = location
                       \/ /\ FirstTag(els[a]) = "randomPost"
                          /\ env["window.toRandomPost"] = "absent"
                          /\ location' = S_archives]_vars

\* a button-class anchor with a valid href and an onclick was rewritten and
\* clicked, and the location stayed
C1_Witness ==
    /\ last.kind = "click"
    /\ orig[last.node].href = H_post /\ orig[last.node].onclick = O_call
    /\ "totopbtn" \in Target.cls
    /\ IsButtonRewritten(Target)
    /\ Target.nclick = 1
    /\ location = last.locBefore

(***************************************************************************)
(* C2: an anchor with no known button class whose href, trimmed and        *)
(* lowercased, is empty, absent or in the invalid set has href "#current"  *)
(* once sanitizeOne has processed it, with or without an onclick.          *)
(***************************************************************************)
C2_PlainInvalidGetsCurrent ==
    [][\A a \in AnchorIds :
          (~HasButtonClass(els[a]) /\ HrefIsInvalid(els[a]) /\ SanitizedIn(a))
             => els'[a].href = S_current]_vars

\* 'JavaScript:Void(0)' with an onclick, no button class, processed
C2_Witness ==
    \E a \in AnchorIds :
       /\ orig[a].href = H_jsMixed /\ orig[a].onclick = O_call
       /\ ~HasButtonClass(orig[a])
       /\ Processed(a)
       /\ els[a].href = S_current

(***************************************************************************)
(* C3, as stated: for an anchor whose target is "_blank" in any letter     *)
(* case, the rel tokens after sanitizeOne are the previous rel tokens      *)
(* together with noopener and noreferrer, each token once.                 *)
(***************************************************************************)
C3_RelIsUnionOfPrevious ==
    [][\A a \in AnchorIds :
          (TargetIsBlank(els[a]) /\ SanitizedIn(a))
             => /\ RelTokens(els'[a]) = RelTokens(els[a]) \cup RequiredRelSet
                /\ RelHasNoRepeat(els'[a])]_vars

(***************************************************************************)
(* C3, amended: the rel tokens after sanitizeOne are the previous rel      *)
(* tokens, lowercased, together with noopener and noreferrer, each token   *)
(* once.                                                                   *)
(***************************************************************************)
C3_RelIsUnionOfLowercased ==
    [][\A a \in AnchorIds :
          (TargetIsBlank(els[a]) /\ SanitizedIn(a))
             => /\ RelTokens(els'[a])
                      = {toLowerCase(t) : t \in RelTokens(els[a])} \cup RequiredRelSet
                /\ RelHasNoRepeat(els'[a])]_vars

\* target "_BLANK", rel " ugc\tnoopener  ugc": processed to "ugc noopener noreferrer"
C3_Witness ==
    \E a \in AnchorIds :
       /\ orig[a].target = T_blankUpper /\ orig[a].rel = R_dups
       /\ Processed(a)
       /\ els[a].rel = <<"u", "g", "c", " ", "n", "o", "o", "p", "e", "n", "e", "r",
                         " ", "n", "o", "r", "e", "f", "e", "r", "r", "e", "r">>

(***************************************************************************)
(* C4: processing an anchor that has been processed, with its attributes   *)
(* as that left them, changes neither its attributes nor its listeners.    *)
(***************************************************************************)
C4_SecondPassChangesNothing ==
    [][\A a \in AnchorIds :
          (SanitizedIn(a) /\ Processed(a) /\ a \notin touched)
             => els'[a] = els[a]]_vars

(***************************************************************************)
(* C5: once the observer callback has handled a batch, every anchor it     *)
(* processed is as one application of sanitizeOne to the page's markup     *)
(* (what the first pass does) would have made it; a batch that adds no     *)
(* element node processes nothing.                                         *)
(***************************************************************************)
C5_InsertedAsIfAtLoad ==
    [][/\ \A a \in AnchorIds :
            (proc'[a].watcher # proc[a].watcher /\ a \notin touched)
               => els'[a] = sanitizeOne(orig[a])
       /\ (records # <<>> /\ records' = <<>>
             /\ \A n \in Range(Flatten(records)) : nodeType(n) # 1)
               => proc' = proc]_vars

(***************************************************************************)
(* C6: sanitizeOne leaves an anchor with a valid href and no onclick       *)
(* attribute as it is, whatever its classes: no attribute changes but rel, *)
(* rel changes only when target is "_blank" (in any case), and no          *)
(* listener is added.                                                      *)
(***************************************************************************)
C6_ValidHrefUntouched ==
    [][\A a \in AnchorIds :
          (~HrefIsInvalid(els[a]) /\ els[a].onclick = Null /\ SanitizedIn(a))
             => /\ els'[a] = [els[a] EXCEPT !.rel = els'[a].rel]
                /\ els'[a].rel # els[a].rel => TargetIsBlank(els[a])]_vars

\* <a class="totopbtn" href="/posts/1" target="_blank" rel="noopener">, processed
C6_Witness ==
    \E a \in AnchorIds :
       /\ orig[a] = El(H_post, Null, S_blank, S_noopener, Null, Null, {"totopbtn"})
       /\ Processed(a)
       /\ els[a] = [orig[a] EXCEPT !.rel = S_noopener \o <<" ">> \o S_noreferrer]

\* the latest event was a click on an anchor attachHandler has bound
ClickedBound == last.kind = "click" /\ Target.nclick > 0

ClickedTotop ==
    ClickedBound /\ FirstTag(Target) = "totop" /\ last.node \notin touched

(***************************************************************************)
(* C8, as stated: a bound anchor whose first matching tag is totop has     *)
(* href "#", and every click on it ends with the viewport at offset 0.     *)
(***************************************************************************)
C8_TotopAlwaysReachesTop ==
    ClickedTotop => Target.href = S_hash /\ scrollY = 0

(***************************************************************************)
(* C8, amended: a bound anchor whose first matching tag is totop has href  *)
(* "#"; each listener run attempts the smooth scroll and, if that throws,  *)
(* the instant scrollTo(0, 0); the click ends with the viewport at offset  *)
(* 0 when one of the two succeeds, and leaves the viewport where it was    *)
(* when window.scrollTo is absent, not callable or throws on both.         *)
(***************************************************************************)
C8_TotopReachesTopIfScrollWorks ==
    ClickedTotop
       => /\ Target.href = S_hash
          /\ env["window.scrollTo"] = "ok"
                => Range(last.calls) = {"scrollTo(smooth)"} /\ scrollY = 0
          /\ env["window.scrollTo"] = "nosmooth"
                => /\ Range(last.calls) = {"scrollTo(smooth)", "scrollTo(0,0)"}
                   /\ Len(last.calls) = 2 * last.runs
                   /\ scrollY = 0
          /\ env["window.scrollTo"] = "throws"
                => /\ Range(last.calls) = {"scrollTo(smooth)", "scrollTo(0,0)"}
                   /\ scrollY = last.yBefore
          /\ env["window.scrollTo"] \in {"absent", "notcallable"}
                => last.calls = <<>> /\ scrollY = last.yBefore

\* the smooth scroll threw and the instant one brought the viewport to the top
C8_Witness ==
    /\ ClickedTotop
    /\ env["window.scrollTo"] = "nosmooth"
    /\ last.yBefore = 400
    /\ last.calls = <<"scrollTo(smooth)", "scrollTo(0,0)">>
    /\ scrollY = 0

(***************************************************************************)
(* C9: no exception leaves a click listener, whatever the state of the     *)
(* optional globals and of the scroll API.                                 *)
(***************************************************************************)
C9_NoErrorEscapes == last.errors = 0

\* what the branch of a tag may call or do
TagEffects(tag) ==
    CASE tag = "darkmode" ->
            {"navFn.switchDarkMode", "navFn.switcharMode", "heo.switchDarkMode",
             "window.switchDarkMode"}
      [] tag = "asideSwitch"    -> {"heo.showConsole"}
      [] tag = "consoleSwitch"  -> {"heo.showConsole", "heo.hideConsole"}
      [] tag = "commentBarrage" ->
            {"window.switchCommentBarrage", "heo.toggleCommentBarrage"}
      [] tag = "totop"          -> {"scrollTo(smooth)", "scrollTo(0,0)"}
      [] tag = "randomPost"     -> {"window.toRandomPost", "location.href=/archives/"}
      [] OTHER                  -> {}

(***************************************************************************)
(* C10: a click (or the click an Enter keydown synthesizes) has only       *)
(* effects of the branch of the first tag, in priority order, that the     *)
(* anchor matches: no call, scroll or navigation of a later tag.           *)
(***************************************************************************)
C10_FirstTagOnly ==
    last.kind # "none" => Range(last.calls) \subseteq TagEffects(FirstTag(Target))

\* darkmode, randomPost and site-page classes, no dark-mode function, a
\* toRandomPost that would work: the click called nothing and stayed
C10_Witness ==
    /\ ClickedBound
    /\ Target.cls = {"darkmode_switchbutton", "randomPost", "site-page"}
    /\ \A f \in TagEffects("darkmode") : env[f] = "absent"
    /\ env["window.toRandomPost"] = "ok"
    /\ last.calls = <<>>
    /\ location = last.locBefore

\* the probe order of each branch that has one, as the specification lists it
ProbeOrder(tag) ==
    CASE tag = "darkmode" ->
            <<"navFn.switchDarkMode", "navFn.switcharMode", "heo.switchDarkMode",
              "window.switchDarkMode">>
      [] tag = "consoleSwitch"  -> <<"heo.showConsole", "heo.hideConsole">>
      [] tag = "commentBarrage" ->
            <<"window.switchCommentBarrage", "heo.toggleCommentBarrage">>
      [] OTHER -> <<>>

\* the position in the order of the first function that is present, 0 if none
FirstPresent(order) ==
    IF \E i \in 1..Len(order) : env[order[i]] # "absent"
    THEN CHOOSE i \in 1..Len(order) :
            /\ env[order[i]] # "absent"
            /\ \A j \in 1..(i - 1) : env[order[j]] = "absent"
    ELSE 0

\* the latest event ran the click listener on an anchor whose first tag has
\* a probe order
ProbedRun ==
    /\ last.kind # "none"
    /\ last.runs > 0
    /\ FirstTag(Target) \in {"darkmode", "consoleSwitch", "commentBarrage"}

(***************************************************************************)
(* C11: in the darkmode, consoleSwitch and commentBarrage branches every   *)
(* run of the click listener calls the first function of the branch's      *)
(* probe order that is present, and only it, whether it returns or throws; *)
(* it calls nothing when none is present (or when the first value present  *)
(* is no function: the attempt fails and no later one is tried).           *)
(***************************************************************************)
C11_FirstPresentOnly ==
    ProbedRun
       => LET order == ProbeOrder(FirstTag(Target))
              i     == FirstPresent(order)
          IN  IF i = 0 \/ env[order[IF i = 0 THEN 1 ELSE i]] = "notcallable"
              THEN last.calls = <<>>
              ELSE /\ Len(last.calls) = last.runs
                   /\ Range(last.calls) = {order[i]}

\* dark mode: the first function absent, the second throws, the later ones
\* would work; one click called the second and nothing else
C11_Witness ==
    /\ ClickedBound
    /\ FirstTag(Target) = "darkmode"
    /\ env["navFn.switchDarkMode"] = "absent"
    /\ env["navFn.switcharMode"] = "throws"
    /\ env["heo.switchDarkMode"] = "ok"
    /\ last.runs = 1
    /\ last.calls = <<"navFn.switcharMode">>

\* the optional external functions the specification names
ExternalFns ==
    UNION {Range(ProbeOrder(t)) : t \in {"darkmode", "consoleSwitch", "commentBarrage"}}
    \cup {"heo.showConsole", "window.toRandomPost"}

(***************************************************************************)
(* C12: one click on a button-like anchor calls each optional external     *)
(* function at most once, however many passes and observer batches have    *)
(* processed the anchor.                                                   *)
(***************************************************************************)
C12_AtMostOncePerClick ==
    last.kind = "click"
       => \A f \in ExternalFns : Cardinality({i \in 1..Len(last.calls) : last.calls[i] = f}) <= 1

(***************************************************************************)
(* C13: a click on an anchor the handler is bound to has its default       *)
(* navigation suppressed exactly when the anchor's href attribute is "#"   *)
(* at that moment, whatever branch is taken (none, when no class matches   *)
(* any more) and whether or not the branch's function throws: with the     *)
(* href "#" the location changes only by the randomPost fallback, with     *)
(* another href the link is followed.                                      *)
(***************************************************************************)
C13_PreventDefaultIffHash ==
    ClickedBound
       => /\ last.prevented <=> (Target.href # Null /\ Target.href = <<"#">>)
          /\ last.prevented => (location = last.locBefore \/ last.assigned)
          /\ Target.href = H_post => location = H_post

\* the page has emptied the class list of a bound anchor: a click matches no
\* tag, calls nothing, and is still suppressed
C13_Witness ==
    /\ ClickedBound
    /\ Target.cls = {}
    /\ Target.href = S_hash
    /\ last.prevented
    /\ last.calls = <<>>
    /\ location = last.locBefore

\* where a node of the document sits: its index among the root's children,
\* then, for a child of the container, its index among the container's
IndexIn(seq, n) == CHOOSE i \in 1..Len(seq) : seq[i] = n

TreePath(n) ==
    IF Parent(n) = "root" THEN <<IndexIn(kids["root"], n)>>
    ELSE <<IndexIn(kids["root"], "div"), IndexIn(kids["div"], n)>>

\* anchor x comes before anchor y in document order
Precedes(x, y) ==
    LET px == TreePath(x)
        py == TreePath(y)
    IN  \/ px[1] < py[1]
        \/ px[1] = py[1] /\ Len(px) = 2 /\ Len(py) = 2 /\ px[2] < py[2]

InDocument == {a \in AnchorIds : Connected(a)}

NeverProcessed == [a \in AnchorIds |-> [initial |-> 0, watcher |-> 0]]

(***************************************************************************)
(* C14: until run() nothing is processed and nothing is queued for the     *)
(* observer; run()'s pass processes every anchor in the document once, in  *)
(* document order, and leaves no record pending when observation starts;   *)
(* the pass happens once, and the observer processes anchors only once it  *)
(* is watching, from records of later insertions.                          *)
(***************************************************************************)
C14_PassThenWatch ==
    [][/\ wstate = "uninitialized" => records = <<>> /\ proc = NeverProcessed
       /\ (wstate = "uninitialized" /\ wstate' = "watching")
             => /\ Range(initOrder') = InDocument
                /\ Len(initOrder') = Cardinality(InDocument)
                /\ \A i, j \in 1..Len(initOrder') :
                      i < j => Precedes(initOrder'[i], initOrder'[j])
                /\ \A a \in AnchorIds :
                      proc'[a] = [initial |-> IF a \in InDocument THEN 1 ELSE 0,
                                  watcher |-> 0]
                /\ records' = <<>>
       /\ \A a \in AnchorIds :
             /\ proc'[a].initial # proc[a].initial => wstate = "uninitialized"
             /\ proc'[a].watcher # proc[a].watcher
                   => /\ wstate = "watching"
                      /\ \E i \in 1..Len(records) :
                            \E k \in 1..Len(records[i]) :
                               \/ records[i][k] = a
                               \/ records[i][k] = "div" /\ Parent(a) = "div"]_vars

\* the container with a2 comes before a1: the pass took a2, then a1, and the
\* observer has processed neither
C14_Witness ==
    /\ wstate = "watching"
    /\ kids = [root |-> <<"div", "a1">>, div |-> <<"a2">>]
    /\ initOrder = <<"a2", "a1">>
    /\ proc = [a \in AnchorIds |-> [initial |-> 1, watcher |-> 0]]
    /\ records = <<>>

\* sanitizeOne has processed anchor a once, and no page script has set its
\* attributes since
ProcessedOnce(a) ==
    proc[a].initial + proc[a].watcher = 1 /\ a \notin touched

C16_OnclickOnlyUntouched ==
    \A a \in AnchorIds :
       (/\ ProcessedOnce(a)
        /\ ~HasButtonClass(orig[a])
        /\ orig[a].onclick # Null
        /\ (~HrefIsInvalid(orig[a]) \/ orig[a].href = Null))
          => /\ els[a].href = orig[a].href
             /\ els[a].onclick = orig[a].onclick
             /\ els[a].nclick = 0 /\ els[a].nkeydown = 0

(***************************************************************************)
(* C16, amended: sanitizeOne leaves such an anchor's onclick as it was and *)
(* binds no handler to it; it leaves a valid href as it was, and gives an  *)
(* anchor with no href attribute the href "#current".                      *)
(***************************************************************************)
C16_OnclickOnlyKeepsValidHref ==
    \A a \in AnchorIds :
       (/\ ProcessedOnce(a)
        /\ ~HasButtonClass(orig[a])
        /\ orig[a].onclick # Null
        /\ (~HrefIsInvalid(orig[a]) \/ orig[a].href = Null))
          => /\ els[a].href = (IF orig[a].href = Null THEN S_current ELSE orig[a].href)
             /\ els[a].onclick = orig[a].onclick
             /\ els[a].nclick = 0 /\ els[a].nkeydown = 0

\* <a href="/posts/1" onclick="f()"> and no class, processed: as it was
C16_Witness ==
    \E a \in AnchorIds :
       /\ ProcessedOnce(a)
       /\ orig[a].href = H_post /\ orig[a].onclick = O_call /\ orig[a].cls = {}
       /\ els[a] = orig[a]

\* the latest event ran the click listener on an anchor whose first tag is
\* randomPost
RandomPostRun ==
    last.kind # "none" /\ last.runs > 0 /\ FirstTag(Target) = "randomPost"

(***************************************************************************)
(* C17, as stated: in the randomPost branch a throw of window.toRandomPost *)
(* is swallowed, and a failure of the assignment of "/archives/" to        *)
(* location.href is not: it leaves the listener.                           *)
(***************************************************************************)
C17_FallbackFailureEscapes ==
    RandomPostRun
       => /\ env["window.toRandomPost"] = "throws" => last.errors = 0
          /\ (env["window.toRandomPost"] = "absent" /\ env["location.href"] = "throws")
                => last.errors > 0

(***************************************************************************)
(* C17, amended: in the randomPost branch a throw of window.toRandomPost   *)
(* and a failure of the fallback assignment to location.href are both      *)
(* swallowed: the function is called, or the assignment attempted, once    *)
(* per run of the listener, no exception leaves it, and after a failed     *)
(* assignment the location is as it was.                                   *)
(***************************************************************************)
C17_BothFailuresSwallowed ==
    RandomPostRun
       => /\ env["window.toRandomPost"] = "throws"
                => /\ last.errors = 0
                   /\ Range(last.calls) = {"window.toRandomPost"}
                   /\ Len(last.calls) = last.runs
          /\ (env["window.toRandomPost"] = "absent" /\ env["location.href"] = "throws")
                => /\ last.errors = 0
                   /\ Range(last.calls) = {"location.href=/archives/"}
                   /\ Len(last.calls) = last.runs
                   /\ ~last.assigned
                   /\ last.prevented => location = last.locBefore

\* no toRandomPost and a location setter that throws: the click attempted
\* the assignment, nothing escaped, the page stayed
C17_Witness ==
    /\ ClickedBound
    /\ FirstTag(Target) = "randomPost"
    /\ env["window.toRandomPost"] = "absent"
    /\ env["location.href"] = "throws"
    /\ last.calls = <<"location.href=/archives/">>
    /\ last.errors = 0
    /\ location = last.locBefore

\* the latest event was a keydown on an anchor attachHandler has bound
KeydownBound == last.kind = "keydown" /\ Target.nkeydown > 0

(***************************************************************************)
(* C18: a keydown on a bound anchor synthesizes a click exactly when the   *)
(* key is Enter and the anchor's href attribute is "#" at that moment, and *)
(* one Enter keydown then gives one click and one run of the click         *)
(* behaviour.                                                              *)
(***************************************************************************)
C18_EnterSynthesizesOneClick ==
    KeydownBound
       => /\ last.clicks > 0 <=> (last.key = "Enter" /\ Target.href = <<"#">>)
          /\ last.clicks > 0 => last.clicks = 1 /\ last.runs = 1

(***************************************************************************)
(* C19: a step that changes attributes or binds listeners (sanitizeOne in  *)
(* the pass or in the observer callback, a page script) queues no mutation *)
(* record: the queue changes only when the page changes a child list or    *)
(* when the callback takes the pending batch, which it handles whole and   *)
(* which leaves the queue empty.  So once nothing is pending, nothing is   *)
(* processed and nothing is queued until the page changes a child list     *)
(* again.                                                                  *)
(***************************************************************************)
C19_RewritesQueueNothing ==
    [][/\ records' # records => (kids' # kids \/ records' = <<>>)
       /\ (els' # els /\ kids' = kids) => Len(records') <= Len(records)
       /\ (\E a \in AnchorIds : SanitizedIn(a)) => records' = <<>>
       /\ (wstate = "watching" /\ records = <<>> /\ kids' = kids)
             => records' = <<>> /\ proc' = proc]_vars

\* the observer has processed an inserted anchor, rewriting it, and nothing
\* is pending
C19_Witness ==
    \E a \in AnchorIds :
       /\ proc[a] = [initial |-> 0, watcher |-> 1]
       /\ els[a] # orig[a]
       /\ els[a].nclick = 1
       /\ records = <<>>
       /\ ops > 0

\* the attributes and the class list of an anchor, without its listeners
Attributes(e) ==
    [href |-> e.href, role |-> e.role, tabindex |-> e.tabindex, rel |-> e.rel,
     target |-> e.target, onclick |-> e.onclick, cls |-> e.cls]

(***************************************************************************)
(* C20: sanitizeOne applied to an anchor it has processed, whose           *)
(* attributes are as that left them, leaves href, role, tabindex, rel,     *)
(* target, onclick and the class list as they are: a button-like anchor    *)
(* stays at href "#", a plain-invalid one at "#current".                   *)
(***************************************************************************)
C20_AttributesAreFixedPoint ==
    [][\A a \in AnchorIds :
          (SanitizedIn(a) /\ Processed(a) /\ a \notin touched)
             => /\ Attributes(els'[a]) = Attributes(els[a])
                /\ els[a].href = <<"#">> => els'[a].href = <<"#">>
                /\ els[a].href = S_current => els'[a].href = S_current]_vars

\* <a href="#" target="_BLANK" rel="NoFollow noreferrer"> processed twice:
\* "#current" and "nofollow noreferrer noopener" both times
C20_Witness ==
    \E a \in AnchorIds :
       /\ proc[a].initial + proc[a].watcher = 2
       /\ a \notin touched
       /\ orig[a].href = S_hash /\ orig[a].target = T_blankUpper /\ orig[a].rel = R_mixed
       /\ orig[a].cls = {}
       /\ els[a].href = S_current
       /\ els[a].rel = <<"n", "o", "f", "o", "l", "l", "o", "w", " ",
                         "n", "o", "r", "e", "f", "e", "r", "r", "e", "r", " ",
                         "n", "o", "o", "p", "e", "n", "e", "r">>

=============================================================================
